---- MODULE Spec2Model ----
(***************************************************************************)
(* A model of ultk.language.grammar (Rule, GrammaticalExpression, Grammar) *)
(* and of the part of ultk.language.semantics that evaluate() relies on.   *)
(*                                                                         *)
(* Python values are encoded uniformly so that Python's == is TLA+'s =:    *)
(*   None, a list and a tuple are records [kind, elems]; a list never      *)
(*   equals a tuple, as in Python;                                         *)
(*   a str is the sequence of its characters;                              *)
(*   a function object is the string that names it (identity).             *)
(***************************************************************************)
EXTENDS Integers, Sequences, FiniteSets, TLC

VARIABLES
    _rules,          \* Grammar._rules: defaultdict(list), nonterminal -> list of rules
    _rules_by_name,  \* Grammar._rules_by_name: dict, name -> rule
    _start,          \* Grammar._start
    ret,             \* the call the client made last: its name, its outcome, its value
    expression,      \* the string that call of parse was given
    gen,             \* the generator of the enumeration in progress
    yielded,         \* the expressions that generator has yielded, each with its depth
    unique_dict,     \* the unique_dict of the enumeration in progress
    meaning,         \* the meaning slot of the tree the last call returned
    evaluated        \* the calls of evaluate made on that tree, each with its outcome

vars == <<_rules, _rules_by_name, _start, ret, expression, gen, yielded, unique_dict,
          meaning, evaluated>>

----------------------------------------------------------------------------
(* Bounds of the model. *)

\* add_rule is called at most MaxRules times on a grammar
MaxRules == 3
\* enumerate_at_depth is called with a depth of at most MaxDepth, and enumerate
\* and get_unique_expressions sweep the depths up to MaxDepth
MaxDepth == 2
\* a generator is advanced at most MaxYield times
MaxYield == 40
\* generate is followed through at most MaxGenDepth levels of recursive calls
MaxGenDepth == 1
\* evaluate is called at most MaxEval times on a tree
MaxEval == 2

----------------------------------------------------------------------------
(* Python values. *)

None == "None"
PyNone == [kind |-> "None", elems |-> <<>>]
PyList(s) == [kind |-> "list", elems |-> s]
PyTuple(s) == [kind |-> "tuple", elems |-> s]

\* the nonterminals a client uses
Symbols == {"B", "N"}

----------------------------------------------------------------------------
(* Rule. *)

Rule(name, lhs, rhs, func, weight) ==
    [name |-> name, lhs |-> lhs, rhs |-> rhs, func |-> func, weight |-> weight]

is_terminal(rule) == rule.rhs = PyNone

\* The rules a client has at hand: the B/T1/T2/AND grammar of the documentation
\* and a rule whose right-hand side is the empty list (func left to its default).
RuleT1 == Rule(<<"T", "1">>, "B", PyNone, "true", 1)
RuleT2 == Rule(<<"T", "2">>, "B", PyNone, "false", 1)
RuleAND == Rule(<<"A", "N", "D">>, "B", PyList(<<"B", "B">>), "and", 1)
RuleE == Rule(<<"E">>, "B", PyList(<<>>), "default", 1)
RulePool == {RuleT1, RuleT2, RuleAND, RuleE}

\* Rules of more than one nonterminal and of more than one weight (func left
\* to its default): a terminal rule of B of weight 0, a terminal rule of N and
\* a rule of B whose child is an N; with them a terminal rule of B of weight 1,
\* the rule of two children and the rule of no child.
RuleZ == Rule(<<"Z">>, "B", PyNone, "default", 0)
RuleN1 == Rule(<<"n">>, "N", PyNone, "default", 1)
RuleNOT == Rule(<<"N", "O", "T">>, "B", PyList(<<"N">>), "default", 1)
WeightedPool == {RuleT1, RuleAND, RuleE, RuleZ, RuleN1, RuleNOT}

----------------------------------------------------------------------------
(* Grammar: construction and add_rule. *)

\* self._rules[lhs] read without inserting the key
RulesOf(rules, lhs) == IF lhs \in DOMAIN rules THEN rules[lhs] ELSE <<>>

\* self._rules[lhs] of a defaultdict(list): reading a missing key inserts it
Touch(rules, keys) ==
    [k \in (DOMAIN rules) \cup keys |-> RulesOf(rules, k)]

\* the number of add_rule calls made so far (every call appends to a list)
NumAdded == Cardinality({<<k, i>> \in Symbols \X (1 .. MaxRules + 1) :
                            k \in DOMAIN _rules /\ i <= Len(_rules[k])})

NoValue == <<>>
\* a call that has ended (err is None when it returned) and a call in progress
Ret(op, err, value) == [op |-> op, done |-> TRUE, err |-> err, value |-> value]
Running(op, value) == [op |-> op, done |-> FALSE, err |-> None, value |-> value]
\* no call is in progress and no result is held
Idle == ret.op \in {"idle", "add_rule"}

NoGen == [kind |-> "none", state |-> "none", depth |-> 0, lhs |-> None, num |-> 0,
          f |-> <<>>, unique_key |-> None, compare_func |-> None, max_size |-> 0]

\* the meaning slot of a tree made without a meaning: Expression.__init__
\* puts an "empty" meaning there
NoMeaning == [referents |-> <<>>, universe |-> <<>>]

\* what the model records of a call, before any call
NoCall ==
    /\ expression = <<>>
    /\ gen = NoGen
    /\ yielded = <<>>
    /\ unique_dict = <<>>
    /\ meaning = NoMeaning
    /\ evaluated = <<>>

Init ==
    /\ _rules = <<>>
    /\ _rules_by_name = <<>>
    /\ _start = "B"
    /\ ret = Ret("idle", None, NoValue)
    /\ NoCall

\* Grammar.add_rule: the append comes before the check of the name
AddRuleLists(rules, rule) ==
    [Touch(rules, {rule.lhs}) EXCEPT ![rule.lhs] = Append(@, rule)]

AddRuleRejected(by_name, rule) == rule.name \in DOMAIN by_name

AddRuleIndex(by_name, rule) ==
    IF AddRuleRejected(by_name, rule) THEN by_name
    ELSE (rule.name :> rule) @@ by_name

add_rule(rule) ==
    /\ Idle
    /\ NumAdded < MaxRules
    /\ _rules' = AddRuleLists(_rules, rule)
    /\ _rules_by_name' = AddRuleIndex(_rules_by_name, rule)
    /\ ret' = Ret("add_rule",
                  IF AddRuleRejected(_rules_by_name, rule) THEN "ValueError" ELSE None,
                  NoValue)
    /\ UNCHANGED <<_start, expression, gen, yielded, unique_dict, meaning, evaluated>>

----------------------------------------------------------------------------
(* GrammaticalExpression. *)

\* GrammaticalExpression.__init__; form is never passed by the grammar
GrammaticalExpression(rule_name, func, children) ==
    [rule_name |-> rule_name, form |-> None, func |-> func, children |-> children]

RECURSIVE JoinStr(_, _)
\* sep.join(parts)
JoinStr(parts, sep) ==
    IF parts = <<>> THEN <<>>
    ELSE IF Len(parts) = 1 THEN parts[1]
    ELSE parts[1] \o sep \o JoinStr(Tail(parts), sep)

RECURSIVE Str(_)
\* GrammaticalExpression.__str__
Str(e) ==
    IF e.children = PyNone THEN e.rule_name
    ELSE e.rule_name \o <<"(">>
         \o JoinStr([i \in 1 .. Len(e.children.elems) |-> Str(e.children.elems[i])],
                    <<",", " ">>)
         \o <<")">>

RECURSIVE SumSeq(_)
SumSeq(s) == IF s = <<>> THEN 0 ELSE s[1] + SumSeq(Tail(s))

RECURSIVE PyLen(_)
\* GrammaticalExpression.__len__
PyLen(e) ==
    IF e.children = PyNone THEN 1
    ELSE 1 + SumSeq([i \in 1 .. Len(e.children.elems) |-> PyLen(e.children.elems[i])])

----------------------------------------------------------------------------
(* Grammar.parse. *)

opener == "("
closer == ")"
delimiter == ","
Whitespace == {" "}

\* name_pattern: one character that is no opener, closer or delimiter
IsNameChar(c) == c \notin {opener, closer, delimiter}

RECURSIVE NameRun(_, _)
\* the length of the longest match of name_pattern at position i
NameRun(s, i) ==
    IF i <= Len(s) /\ IsNameChar(s[i]) THEN 1 + NameRun(s, i + 1) ELSE 0

RECURSIVE SpaceRun(_, _)
\* the length of the match of \s* at position i
SpaceRun(s, i) ==
    IF i <= Len(s) /\ s[i] \in Whitespace THEN 1 + SpaceRun(s, i + 1) ELSE 0

RECURSIVE Strip(_)
\* str.strip()
Strip(t) ==
    IF t = <<>> THEN t
    ELSE IF t[1] \in Whitespace THEN Strip(Tail(t))
    ELSE IF t[Len(t)] \in Whitespace THEN Strip(SubSeq(t, 1, Len(t) - 1))
    ELSE t

RECURSIVE Tokens(_, _)
\* token_regex.finditer(expression) from position i: the alternatives are tried
\* in order at each position, and a position where none matches is skipped
Tokens(s, i) ==
    IF i > Len(s) THEN <<>>
    ELSE LET n == NameRun(s, i) IN
         IF n > 0 /\ i + n <= Len(s) /\ s[i + n] = opener
         THEN <<SubSeq(s, i, i + n)>> \o Tokens(s, i + n + 1)
         ELSE IF n > 0
         THEN <<SubSeq(s, i, i + n - 1)>> \o Tokens(s, i + n)
         ELSE IF s[i] = delimiter
         THEN LET w == SpaceRun(s, i + 1) IN
              <<SubSeq(s, i, i + w)>> \o Tokens(s, i + w + 1)
         ELSE IF s[i] = closer
         THEN <<<<closer>>>> \o Tokens(s, i + 1)
         ELSE Tokens(s, i + 1)

Raised(err, stack) == [err |-> err, stack |-> stack]

\* one iteration of the loop of parse over the stripped token
ParseToken(by_name, token, stack) ==
    IF token = <<>> THEN Raised("IndexError", stack)
    ELSE IF token[Len(token)] = opener
    THEN LET name == SubSeq(token, 1, Len(token) - 1) IN
         IF name \notin DOMAIN by_name THEN Raised("KeyError", stack)
         ELSE Raised(None, Append(stack,
                 GrammaticalExpression(name, by_name[name].func, PyList(<<>>))))
    ELSE IF token = <<delimiter>> \/ token = <<closer>>
    THEN IF Len(stack) < 2 THEN Raised("IndexError", stack)
         ELSE LET child == stack[Len(stack)]
                  rest == SubSeq(stack, 1, Len(stack) - 1)
                  top == rest[Len(rest)]
              IN IF top.children = PyNone THEN Raised("AttributeError", rest)
                 ELSE Raised(None,
                        [rest EXCEPT ![Len(rest)].children.elems = Append(@, child)])
    ELSE IF token \notin DOMAIN by_name THEN Raised("KeyError", stack)
         ELSE Raised(None, Append(stack,
                 GrammaticalExpression(token, by_name[token].func, PyNone)))

RECURSIVE ParseLoop(_, _, _)
ParseLoop(by_name, tokens, stack) ==
    IF tokens = <<>> THEN Raised(None, stack)
    ELSE LET r == ParseToken(by_name, Strip(tokens[1]), stack) IN
         IF r.err # None THEN r ELSE ParseLoop(by_name, Tail(tokens), r.stack)

\* Grammar.parse with the default opener, closer and delimiter
Parse(by_name, s) ==
    LET r == ParseLoop(by_name, Tokens(s, 1), <<>>) IN
    IF r.err # None THEN Ret("parse", r.err, NoValue)
    ELSE IF Len(r.stack) # 1 THEN Ret("parse", "ValueError", NoValue)
    ELSE Ret("parse", None, <<r.stack[1]>>)

----------------------------------------------------------------------------
(* Calling an expression. *)

Truthy(v) == v = "True"

\* the function objects of the rules at hand, applied to a sequence of arguments
\* (the arguments are computed first, so one that raises makes the call raise):
\*   "true"    lambda referent: True
\*   "false"   lambda referent: False
\*   "and"     lambda p1, p2: p1 and p2
\*   "default" lambda *args: None   (the default of Rule.__init__)
Apply(func, args) ==
    IF \E i \in 1 .. Len(args) : args[i] = "TypeError" THEN "TypeError"
    ELSE IF func = "default" THEN "None"
    ELSE IF func = "and"
    THEN IF Len(args) # 2 THEN "TypeError"
         ELSE IF Truthy(args[1]) THEN args[2] ELSE args[1]
    ELSE IF Len(args) # 1 THEN "TypeError"
    ELSE IF func = "true" THEN "True" ELSE "False"

\* a faulty variant of lines 118-120: a node with children is called as a leaf
CallAsLeaf(e, args) == Apply(e.func, args)

RECURSIVE Call(_, _)
\* GrammaticalExpression.__call__
Call(e, args) ==
    IF e.children = PyNone THEN Apply(e.func, args)
    ELSE Apply(e.func, [i \in 1 .. Len(e.children.elems) |-> Call(e.children.elems[i], args)])

----------------------------------------------------------------------------
(* itertools.product and max. *)

\* range(n) as a list
Range(n) == [i \in 1 .. n |-> i - 1]

RECURSIVE Flatten(_)
Flatten(ss) == IF ss = <<>> THEN <<>> ELSE ss[1] \o Flatten(Tail(ss))

RECURSIVE ProductSize(_)
ProductSize(pools) ==
    IF pools = <<>> THEN 1 ELSE Len(pools[1]) * ProductSize(Tail(pools))

RECURSIVE ProductAt(_, _)
\* the k-th tuple (from 1) that product(*pools) yields: the last pool cycles fastest
ProductAt(pools, k) ==
    IF pools = <<>> THEN <<>>
    ELSE LET rest == ProductSize(Tail(pools)) IN
         <<pools[1][((k - 1) \div rest) + 1]>>
            \o ProductAt(Tail(pools), ((k - 1) % rest) + 1)

\* list(product(*pools))
Product(pools) == [k \in 1 .. ProductSize(pools) |-> ProductAt(pools, k)]

RECURSIVE MaxOf(_)
\* max(s) of a non-empty sequence
MaxOf(s) ==
    IF Len(s) = 1 THEN s[1]
    ELSE LET m == MaxOf(Tail(s)) IN IF s[1] >= m THEN s[1] ELSE m

----------------------------------------------------------------------------
(* Grammar.enumerate_at_depth, run to its end: what the recursive calls for  *)
(* the children are, since product() consumes each of them whole.           *)

\* what a generator does when it is run: the trees it yields, the exception
\* that ends it (None: it returns), the keys of _rules it reads
Trace(out, err, keys) == [out |-> out, err |-> err, keys |-> keys]

\* a faulty variant of line 328: no combination is skipped
SkipDepthsNever(child_depths, depth) == FALSE

\* the tightness test of line 328: the combination is skipped
SkipDepths(child_depths, depth) == MaxOf(child_depths) < depth - 1

\* the pairs (rule, child_depths) that lines 321-327 go through, in order
Items(rules, depth, lhs) ==
    LET rs == RulesOf(rules, lhs) IN
    Flatten([i \in 1 .. Len(rs) |->
        IF is_terminal(rs[i]) THEN <<>>
        ELSE LET cds == Product([j \in 1 .. Len(rs[i].rhs.elems) |-> Range(depth)]) IN
             [c \in 1 .. Len(cds) |-> [rule |-> rs[i], child_depths |-> cds[c]]]])

\* the trees of depth 0: lines 313-319 without the deduplication
TerminalExprs(rules, lhs) ==
    LET ts == SelectSeq(RulesOf(rules, lhs), is_terminal) IN
    [i \in 1 .. Len(ts) |-> GrammaticalExpression(ts[i].name, ts[i].func, PyNone)]

RECURSIVE EnumAtDepth(_, _, _)

\* product() consumes the generators in order: one that raises ends it
ConsTrace(t, rest) == IF t.err # None THEN <<t>> ELSE <<t>> \o rest

RECURSIVE ChildTraces(_, _, _)
\* lines 332-335: the generators of the children from the i-th on, each run whole
ChildTraces(rules, item, i) ==
    IF i > Len(item.child_depths) THEN <<>>
    ELSE ConsTrace(EnumAtDepth(rules, item.child_depths[i], item.rule.rhs.elems[i]),
                   ChildTraces(rules, item, i + 1))

RECURSIVE UnionKeys(_)
UnionKeys(traces) ==
    IF traces = <<>> THEN {} ELSE traces[1].keys \cup UnionKeys(Tail(traces))

PoolsOf(traces) ==
    Trace([i \in 1 .. Len(traces) |-> traces[i].out], traces[Len(traces)].err,
          UnionKeys(traces))

\* lines 331-336: the pools of children_iter, or the exception of a child
ChildPools(rules, item) == PoolsOf(ChildTraces(rules, item, 1))

\* lines 337-341: the expressions of one (rule, child_depths) pair
ItemExprs(rule, pools) ==
    [k \in 1 .. ProductSize(pools) |->
        GrammaticalExpression(rule.name, rule.func, PyTuple(ProductAt(pools, k)))]

PoolsTrace(item, pools) ==
    IF pools.err # None THEN Trace(<<>>, pools.err, pools.keys)
    ELSE Trace(ItemExprs(item.rule, pools.out), None, pools.keys)

\* lines 327-341 for one (rule, child_depths) pair; max(()) raises ValueError
ItemTrace(rules, depth, item) ==
    IF item.child_depths = <<>> THEN Trace(<<>>, "ValueError", {})
    ELSE IF SkipDepths(item.child_depths, depth) THEN Trace(<<>>, None, {})
    ELSE PoolsTrace(item, ChildPools(rules, item))

ThenTrace(a, b) ==
    IF a.err # None THEN a ELSE Trace(a.out \o b.out, b.err, a.keys \cup b.keys)

RECURSIVE EnumItemsIn(_, _, _, _, _)
\* the pairs number lo to hi, one after the other: the first half of them, then
\* the second half (ThenTrace is associative, and halving keeps the nesting low)
EnumItemsIn(rules, depth, items, lo, hi) ==
    IF lo > hi THEN Trace(<<>>, None, {})
    ELSE IF lo = hi THEN ItemTrace(rules, depth, items[lo])
    ELSE ThenTrace(EnumItemsIn(rules, depth, items, lo, (lo + hi) \div 2),
                   EnumItemsIn(rules, depth, items, ((lo + hi) \div 2) + 1, hi))

\* lines 321-341: the pairs in order, up to the first that raises
EnumItems(rules, depth, items) == EnumItemsIn(rules, depth, items, 1, Len(items))

EnumAtDepth(rules, depth, lhs) ==
    ThenTrace(Trace(IF depth = 0 THEN TerminalExprs(rules, lhs) ELSE <<>>, None, {lhs}),
              EnumItems(rules, depth, Items(rules, depth, lhs)))

----------------------------------------------------------------------------
(* The generator a client holds: enumerate_at_depth or enumerate, advanced   *)
(* by next() from one yield to the following one.                            *)

NoRule == Rule(<<>>, None, PyNone, None, 0)

\* the frame of a running enumerate_at_depth(depth, lhs):
\*   pc "terminals": in the loop of line 314, at rule number ti
\*   pc "rules":     in the loops of lines 321 and 327, at pair number ii
\*   pc "children":  in the loop of line 337 for rule, at tuple number k of
\*                   children_iter, which holds the children's expressions in pools
NewFrame(depth, lhs) ==
    [depth |-> depth, lhs |-> lhs, pc |-> "terminals", ti |-> 1, ii |-> 1, k |-> 1,
     rule |-> NoRule, pools |-> <<>>]

\* what the frame does next: "yield" a tree, "stop" (the generator returns),
\* "raise", or "continue" at another place of the code
Step(kind, tree, f, keys) == [kind |-> kind, tree |-> tree, f |-> f, keys |-> keys]

\* lines 313-319 without the deduplication
StepTerminals(rs, f) ==
    IF f.depth # 0 \/ f.ti > Len(rs)
    THEN Step("continue", NoValue, [f EXCEPT !.pc = "rules", !.ii = 1], {f.lhs})
    ELSE IF is_terminal(rs[f.ti])
    THEN Step("yield", <<GrammaticalExpression(rs[f.ti].name, rs[f.ti].func, PyNone)>>,
              [f EXCEPT !.ti = @ + 1], {f.lhs})
    ELSE Step("continue", NoValue, [f EXCEPT !.ti = @ + 1], {f.lhs})

\* lines 331-337
StepPools(f, item, pools) ==
    IF pools.err # None THEN Step("raise", NoValue, f, {f.lhs} \cup pools.keys)
    ELSE Step("continue", NoValue,
              [f EXCEPT !.pc = "children", !.k = 1, !.rule = item.rule,
                        !.pools = pools.out],
              {f.lhs} \cup pools.keys)

\* lines 321-329
StepRules(rules, f, items) ==
    IF f.ii > Len(items) THEN Step("stop", NoValue, f, {f.lhs})
    ELSE IF items[f.ii].child_depths = <<>> THEN Step("raise", NoValue, f, {f.lhs})
    ELSE IF SkipDepths(items[f.ii].child_depths, f.depth)
    THEN Step("continue", NoValue, [f EXCEPT !.ii = @ + 1], {f.lhs})
    ELSE StepPools(f, items[f.ii], ChildPools(rules, items[f.ii]))

\* a faulty variant of lines 337-341: children_iter is not advanced
StepChildrenAgain(f) ==
    IF f.k > ProductSize(f.pools)
    THEN Step("continue", NoValue,
              [f EXCEPT !.pc = "rules", !.ii = @ + 1, !.rule = NoRule, !.pools = <<>>],
              {})
    ELSE Step("yield",
              <<GrammaticalExpression(f.rule.name, f.rule.func,
                                      PyTuple(ProductAt(f.pools, f.k)))>>,
              f, {})

\* lines 337-341 without the deduplication
StepChildren(f) ==
    IF f.k > ProductSize(f.pools)
    THEN Step("continue", NoValue,
              [f EXCEPT !.pc = "rules", !.ii = @ + 1, !.rule = NoRule, !.pools = <<>>],
              {})
    ELSE Step("yield",
              <<GrammaticalExpression(f.rule.name, f.rule.func,
                                      PyTuple(ProductAt(f.pools, f.k)))>>,
              [f EXCEPT !.k = @ + 1], {})

StepFrame(rules, f) ==
    IF f.pc = "terminals" THEN StepTerminals(RulesOf(rules, f.lhs), f)
    ELSE IF f.pc = "rules" THEN StepRules(rules, f, Items(rules, f.depth, f.lhs))
    ELSE StepChildren(f)

RECURSIVE AdvanceFrame(_, _, _)
FrameGoesOn(rules, s, keys) ==
    IF s.kind = "continue" THEN AdvanceFrame(rules, s.f, keys \cup s.keys)
    ELSE [s EXCEPT !.keys = @ \cup keys]

\* the frame run from f to its next yield, its return or its exception
AdvanceFrame(rules, f, keys) == FrameGoesOn(rules, StepFrame(rules, f), keys)

\* a faulty variant of line 280: the sweep goes one depth too far
SweepEndsLate(num, depth) == num > depth

\* range(depth) of line 280: the depths enumerate goes through end below depth
SweepEnds(num, depth) == num >= depth

GenStep(kind, tree, g, keys) == [kind |-> kind, tree |-> tree, g |-> g, keys |-> keys]

RECURSIVE AdvanceGen(_, _, _)
GenGoesOn(rules, g, r, keys) ==
    IF g.kind = "enumerate" /\ r.kind = "stop"
    THEN AdvanceGen(rules, [g EXCEPT !.num = @ + 1, !.f = NewFrame(g.num + 1, g.lhs)],
                    keys \cup r.keys)
    ELSE GenStep(r.kind, r.tree, [g EXCEPT !.f = r.f], keys \cup r.keys)

\* next() on the generator g: of enumerate_at_depth(g.depth, g.lhs), one frame;
\* of enumerate(g.depth, g.lhs), one frame per num in range(g.depth)
AdvanceGen(rules, g, keys) ==
    IF g.kind = "enumerate" /\ SweepEnds(g.num, g.depth)
    THEN GenStep("stop", NoValue, g, keys)
    ELSE GenGoesOn(rules, g, AdvanceFrame(rules, g.f, {}), keys)

----------------------------------------------------------------------------
(* Deduplication: add_unique of enumerate_at_depth. *)

\* float("inf"), the default of max_size: no len() equals it
Inf == MaxYield + 2

\* the unique_key and compare_func a client passes:
\*   "call"     lambda e: e(referent)
\*   "shorter"  lambda e1, e2: len(e1) < len(e2)
\*   "longer"   lambda e1, e2: len(e1) > len(e2)
UniqueKey(unique_key, e) == Call(e, <<"referent">>)

Compare(compare_func, e1, e2) ==
    IF compare_func = "shorter" THEN PyLen(e1) < PyLen(e2) ELSE PyLen(e1) > PyLen(e2)

do_unique(g) == g.unique_key # None /\ g.compare_func # None

\* a faulty variant of lines 308-310: a tree that is not worse takes the place
ReplacesTies(dict, expr_key, e, compare_func) ==
    expr_key \notin DOMAIN dict \/ ~Compare(compare_func, dict[expr_key], e)

\* a faulty variant of lines 308-310: the first tree of a key is never replaced
ReplacesNever(dict, expr_key, e, compare_func) == expr_key \notin DOMAIN dict

\* lines 308-310: the new expression is stored
Replaces(dict, expr_key, e, compare_func) ==
    expr_key \notin DOMAIN dict \/ Compare(compare_func, e, dict[expr_key])

add_unique(dict, e, unique_key, compare_func) ==
    LET expr_key == UniqueKey(unique_key, e) IN
    IF Replaces(dict, expr_key, e, compare_func)
    THEN (expr_key :> e) @@ dict
    ELSE dict

\* lines 317-318 and 339-340
Deduplicated(dict, g, e) ==
    IF do_unique(g) THEN add_unique(dict, e, g.unique_key, g.compare_func) ELSE dict

----------------------------------------------------------------------------
(* Grammar.generate: the outcomes random.choices allows.                     *)

\* what a call of generate does: the tree it returns (none when it raises),
\* its exception, the keys of _rules it reads
Outcome(value, err, keys) == [value |-> value, err |-> err, keys |-> keys]

Weights(rs) == [i \in 1 .. Len(rs) |-> rs[i].weight]

\* the list comprehension of line 245 over outcomes of the children: it
\* ends with the first that raises
ChildrenOutcome(rule, outcomes) ==
    IF outcomes # <<>> /\ outcomes[Len(outcomes)].err # None
    THEN Outcome(NoValue, outcomes[Len(outcomes)].err, {rule.lhs} \cup UnionKeys(outcomes))
    ELSE Outcome(<<GrammaticalExpression(rule.name, rule.func,
                      PyList([i \in 1 .. Len(outcomes) |-> outcomes[i].value[1]]))>>,
                 None, {rule.lhs} \cup UnionKeys(outcomes))

RECURSIVE Generate(_, _, _)

RECURSIVE ChildOutcomes(_, _, _)
\* the outcomes of generate(child_lhs) for the symbols of rhs, in order
ChildOutcomes(rules, rhs, n) ==
    IF rhs = <<>> THEN {<<>>}
    ELSE UNION {{<<o>> \o rest :
                    rest \in IF o.err # None THEN {<<>>}
                             ELSE ChildOutcomes(rules, Tail(rhs), n)} :
                o \in Generate(rules, rhs[1], n)}

\* lines 242-248 once the_rule is chosen
RuleOutcomes(rules, the_rule, n) ==
    IF is_terminal(the_rule)
    THEN {Outcome(<<GrammaticalExpression(the_rule.name, the_rule.func, PyNone)>>,
                  None, {the_rule.lhs})}
    ELSE IF n = 0 THEN {}
    ELSE {ChildrenOutcome(the_rule, outcomes) :
            outcomes \in ChildOutcomes(rules, the_rule.rhs.elems, n - 1)}

\* a faulty variant of line 239: the weights are left out of the choice
ChoicesUnweighted(rs, lhs) ==
    IF rs = <<>> THEN [err |-> "IndexError", rules |-> {}]
    ELSE [err |-> None, rules |-> {rs[i] : i \in 1 .. Len(rs)}]

\* random.choices(rules, weights): no rule raises IndexError, no positive
\* total weight raises ValueError, else any rule of positive weight
Choices(rs, lhs) ==
    IF rs = <<>> THEN [err |-> "IndexError", rules |-> {}]
    ELSE IF SumSeq(Weights(rs)) <= 0 THEN [err |-> "ValueError", rules |-> {}]
    ELSE [err |-> None, rules |-> {rs[i] : i \in {j \in 1 .. Len(rs) : rs[j].weight > 0}}]

Chosen(rules, lhs, n, choices) ==
    IF choices.err # None THEN {Outcome(NoValue, choices.err, {lhs})}
    ELSE UNION {RuleOutcomes(rules, the_rule, n) : the_rule \in choices.rules}

\* the outcomes of generate(lhs) that make at most n levels of recursive calls
Generate(rules, lhs, n) == Chosen(rules, lhs, n, Choices(RulesOf(rules, lhs), lhs))

----------------------------------------------------------------------------
(* GrammaticalExpression.evaluate and Meaning.                               *)

\* the universes a client has at hand, each the list of its referents
Universes == {<<>>, <<"r1">>, <<"r1", "r2">>}

\* Meaning.__init__: the referents and the universe
Meaning(referents, universe) == [referents |-> referents, universe |-> universe]

\* Meaning.__bool__ (len(universe) is the number of its referents)
MeaningBool(m) == m.referents # <<>> /\ Len(m.universe) > 0

ToSet(s) == {s[i] : i \in 1 .. Len(s)}

\* self(referent) for the referents of the universe, in order
CallsOn(e, universe) == [i \in 1 .. Len(universe) |-> Call(e, <<universe[i]>>)]

RECURSIVE Selected(_, _)
\* [referent for referent in universe.referents if self(referent)]
Selected(universe, values) ==
    IF universe = <<>> THEN <<>>
    ELSE (IF Truthy(values[1]) THEN <<universe[1]>> ELSE <<>>)
         \o Selected(Tail(universe), Tail(values))

\* what one call of evaluate did: the universe it was given, the meaning it
\* returned (none when it raised), the number of calls of the tree it made
Evaluation(universe, err, value, calls) ==
    [universe |-> universe, err |-> err, value |-> value, calls |-> calls]

\* lines 104-109 with the values of self(referent) at hand
Evaluate(m, universe, values) ==
    IF MeaningBool(m) THEN Evaluation(universe, None, <<m>>, 0)
    ELSE IF \E i \in 1 .. Len(values) : values[i] = "TypeError"
    THEN Evaluation(universe, "TypeError", NoValue,
                    CHOOSE i \in 1 .. Len(values) :
                        /\ values[i] = "TypeError"
                        /\ \A j \in 1 .. i - 1 : values[j] # "TypeError")
    ELSE Evaluation(universe, None, <<Meaning(Selected(universe, values), universe)>>,
                    Len(values))

----------------------------------------------------------------------------
(* The calls of a client. *)

\* lines 236-237 and 278-279
DefaultLhs(lhs) == IF lhs = None THEN _start ELSE lhs

\* Grammar.parse
parse(e) ==
    /\ Idle
    /\ ret' = Parse(_rules_by_name, e)
    /\ expression' = e
    /\ UNCHANGED <<_rules, _rules_by_name, _start, gen, yielded, unique_dict, meaning, evaluated>>

\* Grammar.generate(lhs)
generate(lhs) ==
    /\ Idle
    /\ \E o \in Generate(_rules, DefaultLhs(lhs), MaxGenDepth) :
          /\ _rules' = Touch(_rules, o.keys)
          /\ ret' = Ret("generate", o.err, o.value)
    /\ UNCHANGED <<_rules_by_name, _start, expression, gen, yielded, unique_dict,
                   meaning, evaluated>>

\* the client holds a tree that generate or parse returned
Holds == ret.op \in {"generate", "parse"} /\ ret.done /\ ret.err = None

\* GrammaticalExpression.evaluate(universe) on the tree the client holds
evaluate(universe) ==
    /\ Holds
    /\ Len(evaluated) < MaxEval
    /\ \E r \in {Evaluate(meaning, universe, CallsOn(ret.value[1], universe))} :
          /\ meaning' = IF r.err = None THEN r.value[1] ELSE meaning
          /\ evaluated' = Append(evaluated, r)
    /\ UNCHANGED <<_rules, _rules_by_name, _start, ret, expression, gen, yielded,
                   unique_dict>>

\* Grammar.enumerate_at_depth(depth, lhs): the call makes the generator, no more
enumerate_at_depth(depth, lhs) ==
    /\ Idle
    /\ gen' = [NoGen EXCEPT !.kind = "enumerate_at_depth", !.state = "suspended",
                            !.depth = depth, !.lhs = lhs, !.num = depth,
                            !.f = NewFrame(depth, lhs)]
    /\ ret' = Running("enumerate_at_depth", NoValue)
    /\ UNCHANGED <<_rules, _rules_by_name, _start, expression, yielded, unique_dict, meaning, evaluated>>

EnumerateGen(depth, lhs, unique_key, compare_func, max_size) ==
    [NoGen EXCEPT !.kind = "enumerate", !.state = "suspended", !.depth = depth,
                  !.lhs = DefaultLhs(lhs), !.num = 0, !.f = NewFrame(0, DefaultLhs(lhs)),
                  !.unique_key = unique_key, !.compare_func = compare_func,
                  !.max_size = max_size]

\* Grammar.enumerate(depth, lhs) without a unique_dict
enumerate(depth, lhs) ==
    /\ Idle
    /\ gen' = EnumerateGen(depth, lhs, None, None, Inf)
    /\ ret' = Running("enumerate", NoValue)
    /\ UNCHANGED <<_rules, _rules_by_name, _start, expression, yielded, unique_dict, meaning, evaluated>>

\* next() on the generator the client holds
next ==
    /\ ret.op \in {"enumerate", "enumerate_at_depth"}
    /\ gen.state = "suspended"
    /\ Len(yielded) < MaxYield
    /\ \E r \in {AdvanceGen(_rules, gen, {})} :
       /\ _rules' = Touch(_rules, r.keys)
       /\ \/ /\ r.kind = "yield"
             /\ gen' = r.g
             /\ yielded' = Append(yielded, [tree |-> r.tree[1], depth |-> r.g.num])
             /\ ret' = Running(ret.op, r.tree)
          \/ /\ r.kind = "stop"
             /\ gen' = [r.g EXCEPT !.state = "closed"]
             /\ yielded' = yielded
             /\ ret' = Ret(ret.op, "StopIteration", NoValue)
          \/ /\ r.kind = "raise"
             /\ gen' = [r.g EXCEPT !.state = "closed"]
             /\ yielded' = yielded
             /\ ret' = Ret(ret.op, "ValueError", NoValue)
    /\ UNCHANGED <<_rules_by_name, _start, expression, unique_dict, meaning, evaluated>>

\* Grammar.get_unique_expressions: line 372 and the call of enumerate
get_unique_expressions(depth, lhs, max_size, unique_key, compare_func) ==
    /\ Idle
    /\ unique_dict' = <<>>
    /\ gen' = EnumerateGen(depth, lhs, unique_key, compare_func, max_size)
    /\ ret' = Running("get_unique_expressions", NoValue)
    /\ UNCHANGED <<_rules, _rules_by_name, _start, expression, yielded, meaning, evaluated>>

\* line 381: the loop is left
CapReached(dict, max_size) == Cardinality(DOMAIN dict) = max_size

\* one iteration of the loop of lines 374-383, or its end
unique_loop ==
    /\ ret.op = "get_unique_expressions"
    /\ ~ret.done
    /\ Len(yielded) < MaxYield
    /\ \E r \in {AdvanceGen(_rules, gen, {})} :
       /\ _rules' = Touch(_rules, r.keys)
       /\ \/ /\ r.kind = "yield"
             /\ LET dict == Deduplicated(unique_dict, gen, r.tree[1]) IN
                /\ unique_dict' = dict
                /\ yielded' = Append(yielded, [tree |-> r.tree[1], depth |-> r.g.num])
                /\ IF CapReached(dict, gen.max_size)
                   THEN /\ gen' = [r.g EXCEPT !.state = "closed"]
                        /\ ret' = Ret(ret.op, None, NoValue)
                   ELSE /\ gen' = r.g
                        /\ ret' = Running(ret.op, r.tree)
          \/ /\ r.kind = "stop"
             /\ gen' = [r.g EXCEPT !.state = "closed"]
             /\ ret' = Ret(ret.op, None, NoValue)
             /\ UNCHANGED <<yielded, unique_dict>>
          \/ /\ r.kind = "raise"
             /\ gen' = [r.g EXCEPT !.state = "closed"]
             /\ ret' = Ret(ret.op, "ValueError", NoValue)
             /\ UNCHANGED <<yielded, unique_dict>>
    /\ UNCHANGED <<_rules_by_name, _start, expression, meaning, evaluated>>

\* the client drops what the call returned (a generator: also before its end)
drop ==
    /\ ~Idle
    /\ ret.done \/ ret.op \in {"enumerate", "enumerate_at_depth"}
    /\ ret' = Ret("idle", None, NoValue)
    /\ expression' = <<>>
    /\ gen' = NoGen
    /\ yielded' = <<>>
    /\ unique_dict' = <<>>
    /\ meaning' = NoMeaning
    /\ evaluated' = <<>>
    /\ UNCHANGED <<_rules, _rules_by_name, _start>>

\* the characters a client may mistype
EditChars == {opener, closer, delimiter, "X"}

\* s and what one slip of the hand makes of it: a prefix, a character left
\* out, one replaced and one added
Edits(s) ==
    {s} \cup {SubSeq(s, 1, n) : n \in 1 .. Len(s) - 1}
        \cup {SubSeq(s, 1, i - 1) \o SubSeq(s, i + 1, Len(s)) : i \in 1 .. Len(s)}
        \cup {[s EXCEPT ![i] = c] : i \in 1 .. Len(s), c \in EditChars}
        \cup {SubSeq(s, 1, i) \o <<c>> \o SubSeq(s, i + 1, Len(s)) :
                i \in 0 .. Len(s), c \in EditChars}

\* the strings a client parses: the printed trees of the grammar and slips
ParseInputs(rules, lhs) ==
    UNION {Edits(Str(o.value[1])) : o \in {g \in Generate(rules, lhs, MaxGenDepth) :
                                              g.err = None}}

\* the arguments a client passes
Depths == 0 .. MaxDepth
SweepDepths == 0 .. MaxDepth + 1
LhsArgs == Symbols \cup {None}
MaxSizes == {0, 1, 2, Inf}
CompareFuncs == {"shorter", "longer"}

Next ==
    \/ \E rule \in RulePool : add_rule(rule)
    \/ Idle /\ \E e \in ParseInputs(_rules, _start) : parse(e)
    \/ \E lhs \in LhsArgs : generate(lhs)
    \/ \E universe \in Universes : evaluate(universe)
    \/ \E depth \in Depths, lhs \in Symbols : enumerate_at_depth(depth, lhs)
    \/ \E depth \in SweepDepths, lhs \in LhsArgs : enumerate(depth, lhs)
    \/ next
    \/ \E depth \in SweepDepths, max_size \in MaxSizes, compare_func \in CompareFuncs :
          get_unique_expressions(depth, None, max_size, "call", compare_func)
    \/ unique_loop
    \/ drop

Spec == Init /\ [][Next]_vars

\* The grammar and its enumerations alone. A call of parse, generate or
\* evaluate is made between two enumerations and leaves nothing behind that an
\* enumeration reads, but for the key generate(lhs) adds to _rules, which
\* enumerate_at_depth(depth, lhs) adds as well.
NextEnum ==
    \/ \E rule \in RulePool : add_rule(rule)
    \/ \E depth \in Depths, lhs \in Symbols : enumerate_at_depth(depth, lhs)
    \/ \E depth \in SweepDepths, lhs \in LhsArgs : enumerate(depth, lhs)
    \/ next
    \/ \E depth \in SweepDepths, max_size \in MaxSizes, compare_func \in CompareFuncs :
          get_unique_expressions(depth, None, max_size, "call", compare_func)
    \/ unique_loop
    \/ drop

SpecEnum == Init /\ [][NextEnum]_vars

\* a generator can be advanced: the guards of next and of unique_loop, which
\* then yield, stop or raise, and change the state in each case
Advancing ==
    /\ ret.op \in {"enumerate", "enumerate_at_depth", "get_unique_expressions"}
    /\ ~ret.done
    /\ gen.state = "suspended"
    /\ Len(yielded) < MaxYield

\* The enumerations of a client that goes on: the loop of get_unique_expressions
\* runs by itself, and a client that holds a generator advances it or drops it.
\* This is the weak fairness of next \/ unique_loop, written out with Advancing
\* for ENABLED <<next \/ unique_loop>>_vars.
SpecEnumLive ==
    SpecEnum /\ ([]<>(~Advancing) \/ []<><<next \/ unique_loop>>_vars)

\* The grammar of weighted rules of several nonterminals and its calls of
\* generate.
NextGen ==
    \/ \E rule \in WeightedPool : add_rule(rule)
    \/ \E lhs \in LhsArgs : generate(lhs)
    \/ drop

SpecGen == Init /\ [][NextGen]_vars

----------------------------------------------------------------------------
(* What the specification says of parse and add_rule.                        *)

\* the rules of the lists, each with its place
Listed == {<<lhs, i>> \in Symbols \X (1 .. MaxRules + 1) :
              lhs \in DOMAIN _rules /\ i <= Len(_rules[lhs])}

\* no two rules of the lists share a name
UniqueNames ==
    \A p, q \in Listed : p # q => _rules[p[1]][p[2]].name # _rules[q[1]][q[2]].name

\* parse(str(t)) returns a tree that is equal to t under __eq__
RoundTrips(t) == Parse(_rules_by_name, Str(t)) = Ret("parse", None, <<t>>)

\* C1: in a grammar with unique rule names, every tree that generate returns
\* and every tree that enumerate_at_depth(d, lhs) yields is given back by
\* parse(str(t)) as a tree equal to it under __eq__.
RoundTrip ==
    UniqueNames =>
        /\ (ret.op = "generate" /\ ret.err = None) => RoundTrips(ret.value[1])
        /\ gen.kind = "enumerate_at_depth" =>
              \A i \in 1 .. Len(yielded) : RoundTrips(yielded[i].tree)

\* s without its whitespace
NoSpace(s) == SelectSeq(s, LAMBDA c : c \notin Whitespace)

\* C2: parse returns a tree only for the complete canonical form of a tree:
\* when it returns, its input is, up to whitespace, str() of the tree returned;
\* every other input ends in an error.
NoPartialTree ==
    (ret.op = "parse" /\ ret.err = None) =>
        NoSpace(expression) = NoSpace(Str(ret.value[1]))

\* C3: after any sequence of add_rule calls, rejected ones included, the rules
\* of the lists are exactly the rules of the name index: each listed rule is
\* the one indexed under its name, each indexed rule is listed, and no two
\* listed rules share a name.
ListsMatchIndex ==
    /\ \A p \in Listed :
          /\ _rules[p[1]][p[2]].name \in DOMAIN _rules_by_name
          /\ _rules_by_name[_rules[p[1]][p[2]].name] = _rules[p[1]][p[2]]
    /\ \A name \in DOMAIN _rules_by_name :
          \E p \in Listed : _rules[p[1]][p[2]] = _rules_by_name[name]
    /\ UniqueNames

----------------------------------------------------------------------------
(* What the specification says of the enumeration.                           *)

\* the trees the generator has yielded, in order
YieldedTrees == [i \in 1 .. Len(yielded) |-> yielded[i].tree]

\* get_unique_expressions has returned its mapping
Returned == ret.op = "get_unique_expressions" /\ ret.done /\ ret.err = None

\* C4: when get_unique_expressions without a cap has run the enumeration to
\* exhaustion, no tree yielded in that enumeration has the key of an entry of
\* the mapping and compares as better than the tree stored there.
DedupMinimal ==
    (Returned /\ gen.max_size = Inf) =>
        \A k \in DOMAIN unique_dict : \A i \in 1 .. Len(yielded) :
            UniqueKey(gen.unique_key, yielded[i].tree) = k
                => ~Compare(gen.compare_func, yielded[i].tree, unique_dict[k])

\* the enumeration ran through depths 0 to 2 and a later tree took the place of
\* the first tree of its key
DedupMinimalWitness ==
    /\ Returned /\ gen.max_size = Inf /\ gen.depth = MaxDepth + 1
    /\ \E k \in DOMAIN unique_dict : \E i \in 1 .. Len(yielded) :
          /\ UniqueKey(gen.unique_key, yielded[i].tree) = k
          /\ Compare(gen.compare_func, unique_dict[k], yielded[i].tree)

RECURSIVE Depth(_)
\* the depth of a tree: 0 for a leaf, else one more than its deepest child
Depth(t) ==
    IF t.children = PyNone \/ t.children.elems = <<>> THEN 0
    ELSE 1 + MaxOf([i \in 1 .. Len(t.children.elems) |-> Depth(t.children.elems[i])])

ChildDepths(t) ==
    IF t.children = PyNone THEN {}
    ELSE {Depth(t.children.elems[i]) : i \in 1 .. Len(t.children.elems)}

\* C5: every tree yielded by enumerate_at_depth(d, lhs) with d >= 1 has a child
\* of depth exactly d-1 and no child deeper than d-1, and within one sweep of
\* enumerate no tree yielded at one depth is the same as a tree yielded at
\* another depth.
DepthPartition ==
    /\ \A i \in 1 .. Len(yielded) :
          yielded[i].depth >= 1 =>
              /\ yielded[i].depth - 1 \in ChildDepths(yielded[i].tree)
              /\ \A d \in ChildDepths(yielded[i].tree) : d <= yielded[i].depth - 1
    /\ \A i, j \in 1 .. Len(yielded) :
          yielded[i].depth # yielded[j].depth => yielded[i].tree # yielded[j].tree

\* a sweep of enumerate that has yielded trees at depths 0, 1 and 2
DepthPartitionWitness ==
    /\ gen.kind = "enumerate"
    /\ \A d \in 0 .. MaxDepth : \E i \in 1 .. Len(yielded) : yielded[i].depth = d

RECURSIVE SeqsOver(_)
\* the sequences of one element of each set, in order
SeqsOver(sets) ==
    IF sets = <<>> THEN {<<>>}
    ELSE {<<x>> \o rest : x \in sets[1], rest \in SeqsOver(Tail(sets))}

RECURSIVE TreesAt(_, _, _)
\* the derivation trees of depth at most d rooted at a rule of lhs
TreesUpTo(rules, lhs, d) == UNION {TreesAt(rules, lhs, k) : k \in 0 .. d}

\* the derivation trees of depth exactly d rooted at a rule of lhs: at 0 one
\* leaf per terminal rule; at d >= 1, for every other rule, every combination
\* of child trees of depth at most d-1 of which one has depth d-1
TreesAt(rules, lhs, d) ==
    IF d = 0
    THEN {GrammaticalExpression(r.name, r.func, PyNone) :
            r \in {q \in ToSet(RulesOf(rules, lhs)) : is_terminal(q)}}
    ELSE UNION {{GrammaticalExpression(r.name, r.func, PyTuple(c)) :
                    c \in {b \in SeqsOver([i \in 1 .. Len(r.rhs.elems) |->
                                              TreesUpTo(rules, r.rhs.elems[i], d - 1)]) :
                              \E i \in 1 .. Len(b) : Depth(b[i]) = d - 1}} :
                r \in {q \in ToSet(RulesOf(rules, lhs)) : ~is_terminal(q)}}

\* C6: for every grammar, enumerate_at_depth(d, lhs) run to its end yields
\* exactly the derivation trees of depth d rooted at a rule of lhs, each of
\* them once.
Exhaustive ==
    (ret.op = "enumerate_at_depth" /\ ret.done) =>
        /\ ret.err = "StopIteration"
        /\ \A i, j \in 1 .. Len(yielded) : i # j => yielded[i].tree # yielded[j].tree
        /\ ToSet(YieldedTrees) = TreesAt(_rules, gen.lhs, gen.depth)

\* C7: get_unique_expressions with max_size = k never holds more than k
\* entries in its mapping, while it runs and when it returns.
SizeCap ==
    ret.op = "get_unique_expressions" =>
        Cardinality(DOMAIN unique_dict) <= gen.max_size

\* the place of the first tree of the enumeration that is the same as t
FirstYield(t) ==
    CHOOSE i \in 1 .. Len(yielded) :
        yielded[i].tree = t /\ \A j \in 1 .. i - 1 : yielded[j].tree # t

\* the first-seen of the trees that are equally good stays in the mapping
TiesKeepFirst ==
    ret.op = "get_unique_expressions" =>
        \A k \in DOMAIN unique_dict : \A i \in 1 .. Len(yielded) :
            ( /\ UniqueKey(gen.unique_key, yielded[i].tree) = k
              /\ ~Compare(gen.compare_func, yielded[i].tree, unique_dict[k])
              /\ ~Compare(gen.compare_func, unique_dict[k], yielded[i].tree) )
                => FirstYield(unique_dict[k]) <= i

\* the B/T1/T2/AND grammar
DocGrammar ==
    /\ RulesOf(_rules, "B") = <<RuleT1, RuleT2, RuleAND>>
    /\ \A lhs \in DOMAIN _rules : lhs # "B" => _rules[lhs] = <<>>

\* the scenario: the B/T1/T2/AND grammar deduplicated through depths 0 and 1
\* by value on a referent, the strictly shorter tree winning
Scenario ==
    /\ DocGrammar /\ Returned
    /\ gen.depth = 2 /\ gen.lhs = "B" /\ gen.max_size = Inf
    /\ gen.unique_key = "call" /\ gen.compare_func = "shorter"

ScenarioResult ==
    Scenario =>
        unique_dict = ("True" :> GrammaticalExpression(RuleT1.name, RuleT1.func, PyNone))
                   @@ ("False" :> GrammaticalExpression(RuleT2.name, RuleT2.func, PyNone))

\* an entry of the mapping changes only for a new tree that compare_func
\* puts before the tree it replaces
ReplacedOnlyByBetter ==
    (ret.op = "get_unique_expressions" /\ ret'.op = "get_unique_expressions") =>
        \A k \in DOMAIN unique_dict :
            unique_dict'[k] # unique_dict[k] =>
                /\ Len(yielded') = Len(yielded) + 1
                /\ unique_dict'[k] = yielded'[Len(yielded')].tree
                /\ Compare(gen.compare_func, unique_dict'[k], unique_dict[k])

\* C9: during a deduplicating enumeration a new tree takes the place of the
\* tree stored under its key only when compare_func(new, stored) is true, so of
\* the equally good trees of a key the first-seen is retained; and the scenario
\* (B/T1/T2/AND, key = value on a referent, strictly shorter wins, depths 0 and
\* 1) ends with exactly True -> T1 and False -> T2.
FirstSeenWins ==
    /\ [](TiesKeepFirst /\ ScenarioResult)
    /\ [][ReplacedOnlyByBetter]_vars

\* two equally good trees of one key have been enumerated, the second of them
\* after the one the mapping holds
FirstSeenWinsWitness ==
    /\ ret.op = "get_unique_expressions"
    /\ \E k \in DOMAIN unique_dict : \E i \in 1 .. Len(yielded) :
          /\ UniqueKey(gen.unique_key, yielded[i].tree) = k
          /\ yielded[i].tree # unique_dict[k]
          /\ PyLen(yielded[i].tree) = PyLen(unique_dict[k])
          /\ FirstYield(unique_dict[k]) < i

\* the trees the generator yielded at depth d, in order
YieldedAt(d) ==
    LET at == SelectSeq(yielded, LAMBDA y : y.depth = d) IN
    [i \in 1 .. Len(at) |-> at[i].tree]

IsPrefix(s, t) == Len(s) <= Len(t) /\ s = SubSeq(t, 1, Len(s))

\* what enumerate has yielded at depth d is what enumerate_at_depth(d, lhs)
\* yields: all of it for a depth the sweep has left, the first of it for the
\* depth the sweep is at, nothing for a depth yet to come
SweepAt(d, trace) ==
    IF d < gen.num THEN trace.err = None /\ YieldedAt(d) = trace.out
    ELSE IF d > gen.num THEN YieldedAt(d) = <<>>
    ELSE /\ IsPrefix(YieldedAt(d), trace.out)
         /\ ret.done => (trace.err # None /\ YieldedAt(d) = trace.out)

\* C10: enumerate(depth = D, lhs) yields the trees of enumerate_at_depth(0, lhs),
\* enumerate_at_depth(1, lhs), ..., enumerate_at_depth(D-1, lhs) one after the
\* other in that order: the depths of the trees yielded never decrease and
\* stay below D, and the sequence is a function of the rules and their order.
EnumerationOrder ==
    ret.op = "enumerate" =>
        /\ \A i \in 1 .. Len(yielded) : yielded[i].depth < gen.depth
        /\ \A i, j \in 1 .. Len(yielded) :
              i < j => yielded[i].depth <= yielded[j].depth
        /\ ret.err = "StopIteration" => gen.num = gen.depth
        /\ \A d \in 0 .. gen.depth - 1 : SweepAt(d, EnumAtDepth(_rules, d, gen.lhs))

\* a sweep through depths 0, 1 and 2 that has come to its end
EnumerationOrderWitness ==
    /\ ret.op = "enumerate" /\ ret.err = "StopIteration"
    /\ gen.depth = MaxDepth + 1
    /\ YieldedAt(MaxDepth) # <<>>

----------------------------------------------------------------------------
(* What the specification says of evaluate.                                  *)

\* C8: once evaluate has computed the meaning of a tree, every later call of
\* evaluate on that tree, with the same or another universe, returns that
\* meaning and calls the tree on no referent; so too for the meaning that
\* selects no referent.
WriteOnceMeaning ==
    \A i, j \in 1 .. Len(evaluated) :
        (i < j /\ evaluated[i].err = None) =>
            /\ evaluated[j].err = None
            /\ evaluated[j].value = evaluated[i].value
            /\ evaluated[j].calls = 0

----------------------------------------------------------------------------
(* What the specification says of the canonical string form.                 *)

\* no rule name of the grammar holds an opener, a closer or a delimiter
PlainNames ==
    \A p \in Listed : \A i \in 1 .. Len(_rules[p[1]][p[2]].name) :
        IsNameChar(_rules[p[1]][p[2]].name[i])

RECURSIVE SameNodes(_, _)
\* a and b have at every node the same rule name, the same function object and
\* the same number of children in the same order (a list or a tuple of them)
SameNodes(a, b) ==
    /\ a.rule_name = b.rule_name
    /\ a.func = b.func
    /\ (a.children = PyNone) = (b.children = PyNone)
    /\ Len(a.children.elems) = Len(b.children.elems)
    /\ \A i \in 1 .. Len(a.children.elems) :
          SameNodes(a.children.elems[i], b.children.elems[i])

\* parse(str(t)) returns a tree that prints as t does and has the nodes of t
StringRoundTrips(t, r) ==
    /\ r.err = None
    /\ Str(r.value[1]) = Str(t)
    /\ SameNodes(r.value[1], t)

\* C11: for every tree t that generate returns or that enumerate or
\* enumerate_at_depth yields, in a grammar whose rule names hold no opener,
\* closer or delimiter, str(parse(str(t))) is str(t) and the parsed tree has at
\* every node the rule name, the function object and the children count of t.
StringRoundTrip ==
    PlainNames =>
        /\ (ret.op = "generate" /\ ret.err = None) =>
              StringRoundTrips(ret.value[1], Parse(_rules_by_name, Str(ret.value[1])))
        /\ \A i \in 1 .. Len(yielded) :
              StringRoundTrips(yielded[i].tree,
                               Parse(_rules_by_name, Str(yielded[i].tree)))

----------------------------------------------------------------------------
(* What the specification says of calling a tree.                            *)

\* the trees the client holds: the one generate or parse returned and the ones
\* the generator has yielded (the mapping holds some of these)
TreesHeld ==
    (IF Holds THEN {ret.value[1]} ELSE {}) \cup ToSet(YieldedTrees)

RECURSIVE Nodes(_)
\* t and the trees below it
Nodes(t) ==
    {t} \cup UNION {Nodes(t.children.elems[i]) : i \in 1 .. Len(t.children.elems)}

\* the external arguments a tree is called with: none, one referent, two
CallArgs == {<<>>, <<"r1">>, <<"r1", "r2">>}

\* the value of a node is its function applied to the arguments (a leaf) or to
\* the values of its children on these arguments, in the order of the children
PostOrder(t, args) ==
    Call(t, args) =
        IF t.children = PyNone THEN Apply(t.func, args)
        ELSE Apply(t.func, [i \in 1 .. Len(t.children.elems) |->
                               Call(t.children.elems[i], args)])

\* a node AND(x, y) is true exactly when x and y are
AndOfBoth(t, args) ==
    (t.func = "and" /\ t.children # PyNone /\ Len(t.children.elems) = 2) =>
        (Truthy(Call(t, args)) <=>
            (Truthy(Call(t.children.elems[1], args))
                /\ Truthy(Call(t.children.elems[2], args))))

\* C12: calling a tree with external arguments gives, at a leaf, its function
\* applied to these arguments and, at an internal node, its function applied to
\* the values of its children on the same arguments, in child order; so
\* AND(x, y) is true exactly when x and y are both true, the key under which
\* the deduplication stores a tree is that value, and the meaning evaluate
\* computes selects the referents on which that value is true.
PostOrderEvaluation ==
    /\ \A t \in TreesHeld : \A n \in Nodes(t) : \A args \in CallArgs :
          PostOrder(n, args) /\ AndOfBoth(n, args)
    /\ \A k \in DOMAIN unique_dict :
          k = IF unique_dict[k].children = PyNone
              THEN Apply(unique_dict[k].func, <<"referent">>)
              ELSE Apply(unique_dict[k].func,
                         [i \in 1 .. Len(unique_dict[k].children.elems) |->
                             Call(unique_dict[k].children.elems[i], <<"referent">>)])
    /\ \A j \in 1 .. Len(evaluated) :
          (evaluated[j].err = None /\ evaluated[j].calls > 0) =>
              evaluated[j].value[1].referents =
                  SelectSeq(evaluated[j].universe,
                            LAMBDA r : Truthy(Call(ret.value[1], <<r>>)))

\* a tree AND(x, y) of true children is held, and the deduplication has stored
\* a tree with children under its value
PostOrderEvaluationWitness ==
    /\ \E t \in TreesHeld :
          /\ t.func = "and" /\ Len(t.children.elems) = 2
          /\ Call(t, <<"r1">>) = "True"
    /\ \E k \in DOMAIN unique_dict : unique_dict[k].children # PyNone

----------------------------------------------------------------------------
(* What the specification says of generate.                                  *)

RECURSIVE IsDerivation(_, _, _)
\* t is a complete derivation from lhs: its root is made by a rule of lhs of
\* positive weight, without children for a terminal rule, else with a list of
\* one derivation per symbol of the right-hand side, in order
IsDerivation(rules, t, lhs) ==
    \E r \in ToSet(RulesOf(rules, lhs)) :
        /\ r.name = t.rule_name /\ r.func = t.func
        /\ r.weight > 0
        /\ IF is_terminal(r) THEN t.children = PyNone
           ELSE /\ t.children.kind = "list"
                /\ Len(t.children.elems) = Len(r.rhs.elems)
                /\ \A i \in 1 .. Len(r.rhs.elems) :
                      IsDerivation(rules, t.children.elems[i], r.rhs.elems[i])

\* a call generate(lhs) that returns, returns a derivation from lhs (from the
\* start symbol when lhs is None)
GenerateDerives ==
    \A lhs \in LhsArgs :
        (generate(lhs) /\ ret'.err = None) =>
            IsDerivation(_rules, ret'.value[1], IF lhs = None THEN _start ELSE lhs)

\* C13: every tree that generate(lhs) returns is one complete derivation: the
\* rule of the root is a rule of lhs (of the start symbol when lhs is omitted),
\* a node of a non-terminal rule has one child per symbol of the right-hand
\* side, in order, each made by a rule of that symbol, a node of a terminal
\* rule has no children, and every rule chosen has a positive weight.
GenerateIsDerivation == [][GenerateDerives]_vars

\* generate has returned a tree with a child of another nonterminal from a
\* grammar that also has a rule of weight 0 for the root
GenerateIsDerivationWitness ==
    /\ ret.op = "generate" /\ ret.err = None
    /\ ret.value[1].rule_name = RuleNOT.name
    /\ ret.value[1].children.elems = <<GrammaticalExpression(RuleN1.name, RuleN1.func, PyNone)>>
    /\ RuleZ \in ToSet(RulesOf(_rules, "B"))

----------------------------------------------------------------------------
(* What the specification says of the end of an enumeration.                 *)

RECURSIVE SweepFrom(_, _, _, _)
\* lines 280-288 run to their end from depth num on
SweepFrom(rules, num, depth, lhs) ==
    IF num >= depth THEN Trace(<<>>, None, {})
    ELSE ThenTrace(EnumAtDepth(rules, num, lhs), SweepFrom(rules, num + 1, depth, lhs))

RECURSIVE DictOf(_, _, _)
\* the mapping an empty unique_dict becomes by the first n of the trees
DictOf(g, trees, n) ==
    IF n = 0 THEN <<>> ELSE Deduplicated(DictOf(g, trees, n - 1), g, trees[n])

\* an enumeration is in progress
Sweeping == ret.op \in {"enumerate", "get_unique_expressions"} /\ ~ret.done

\* the whole of the sweep can be yielded within the bound on next()
SweepFits(trace) == Len(trace.out) < MaxYield

\* what an enumeration has yielded and stored is what a first enumeration of
\* the grammar yields and stores, whatever was enumerated before
FromScratch ==
    ret.op \in {"enumerate", "get_unique_expressions"} =>
        /\ IsPrefix(YieldedTrees, SweepFrom(_rules, 0, gen.depth, gen.lhs).out)
        /\ ret.op = "get_unique_expressions" =>
              unique_dict = DictOf(gen, YieldedTrees, Len(yielded))

\* C14: every enumeration of enumerate and of get_unique_expressions with a
\* finite depth comes to its end after finitely many trees, in a recursive
\* grammar as well, unless the client drops it; and each enumeration yields
\* (and stores) from the start what the grammar gives, whatever enumeration,
\* abandoned or not, came before it.
EnumerationEnds ==
    /\ [](FromScratch)
    /\ (Sweeping /\ SweepFits(SweepFrom(_rules, 0, gen.depth, gen.lhs)))
           ~> (ret.done \/ Idle)

\* a sweep through depths 0, 1 and 2 of a recursive grammar has come to its end
\* after trees of every depth
EnumerationEndsWitness ==
    /\ ret.op \in {"enumerate", "get_unique_expressions"}
    /\ ret.done /\ gen.depth = MaxDepth + 1 /\ gen.num = gen.depth
    /\ \E i \in 1 .. Len(yielded) : yielded[i].depth = MaxDepth
    /\ RuleAND \in ToSet(RulesOf(_rules, gen.lhs))

----------------------------------------------------------------------------
(* What the documentation of parse says of the trees it returns.             *)

\* the node n has the children the rule does: none for a terminal rule, else a
\* list of as many as the right-hand side has symbols
ArityOf(rule, n) ==
    IF n.children = PyNone THEN is_terminal(rule)
    ELSE ~is_terminal(rule) /\ Len(n.children.elems) = Len(rule.rhs.elems)

\* C15: every tree that parse returns is a derivation with respect to arity:
\* each node with a list of children has as many children as the right-hand
\* side of the rule it names, and each node without children names a terminal
\* rule.
ParseRespectsArity ==
    (ret.op = "parse" /\ ret.err = None) =>
        \A n \in Nodes(ret.value[1]) :
            /\ n.rule_name \in DOMAIN _rules_by_name
            /\ ArityOf(_rules_by_name[n.rule_name], n)

----------------------------------------------------------------------------
(* What the specification says of the grammar during the other calls.        *)

\* a step of a call other than add_rule leaves the mapping and the index alone
OnlyAddRuleChanges ==
    ret'.op # "add_rule" =>
        /\ DOMAIN _rules' = DOMAIN _rules
        /\ \A lhs \in DOMAIN _rules : _rules'[lhs] = _rules[lhs]
        /\ _rules_by_name' = _rules_by_name

\* C16: generate, enumerate, enumerate_at_depth, get_unique_expressions and
\* parse leave the grammar as it was: after each of them, also for a
\* nonterminal without rules, the symbol-to-rules mapping has the keys and the
\* rule lists it had before, and the name index is the same.
GrammarUnchanged == [][OnlyAddRuleChanges]_vars

====
